---- MODULE Spec2Model ----
(***************************************************************************)
(* Model of homework.py: the poll loop of main() and the functions it      *)
(* calls (check_tokens, send_message, get_api_answer, check_response,      *)
(* parse_status).  The remote API, the Telegram transport and the clock    *)
(* are the environment: their outcomes are chosen with \E.                 *)
(*                                                                         *)
(* Python values are encoded as records that carry their Python type in a  *)
(* field "type".  Texts (log lines, message_log.error, messages) are       *)
(* sequences of string parts, the literal parts of the f-strings rendered  *)
(* in English.                                                             *)
(***************************************************************************)
EXTENDS Integers, Sequences, FiniteSets, TLC

VARIABLES
    pc,           \* position of the single thread in main()
    tokens,       \* PRACTICUM_TOKEN, TELEGRAM_TOKEN, TELEGRAM_CHAT_ID
    timestamp,    \* main's local "timestamp": the watermark
    payload,      \* the params of the request issued by get_api_answer in this cycle
    response,     \* main's local "response" of the current cycle
    homeworks,    \* main's local "homeworks" of the current cycle
    message,      \* main's local "message" of the current cycle
    message_log,  \* the module-level side channel message_log
    exc,          \* the exception caught by "except Exception" in this cycle
    pending,      \* the exception propagating out of the try statement
    sent,         \* calls of bot.send_message in this cycle, with their outcome
    log,          \* log records of this cycle
    slept,        \* durations of the time.sleep calls since the last request
    fetched,      \* whether a request has been issued since main() started
    requests,     \* calls of requests.get since the last sleep, with what they met
    written       \* whether message_log.error has been assigned in this cycle

vars == <<pc, tokens, timestamp, payload, response, homeworks, message,
          message_log, exc, pending, sent, log, slept, fetched, requests,
          written>>

----------------------------------------------------------------------------
(* Bounds of the model *)

\* timestamps (time.time(), current_date) range over 0..MaxTime
MaxTime == 1

\* the 'homeworks' list of a response has at most MaxHomeworks records
MaxHomeworks == 2

----------------------------------------------------------------------------
(* Constants of homework.py *)

RETRY_PERIOD == 600

ENDPOINT == "https://practicum.yandex.ru/api/user_api/homework_statuses/"

HTTPStatus_OK == 200

\* HOMEWORK_VERDICTS: the dict as a function on its keys
HOMEWORK_VERDICTS ==
    [s \in {"approved", "reviewing", "rejected"} |->
        CASE s = "approved"  -> "Work checked: the reviewer liked everything. Hooray!"
          [] s = "reviewing" -> "Work taken for review by the reviewer."
          [] s = "rejected"  -> "Work checked: the reviewer has remarks."]

----------------------------------------------------------------------------
(* Python values *)

PyInt(n) == [type |-> "int", val |-> n]
None == [type |-> "NoneType", val |-> 0]

\* repr() of a timestamp value inside an f-string
Repr(v) == IF v.type = "int" THEN ToString(v.val) ELSE "None"

\* an exception object: its class and the function whose raise statement
\* (or failing expression) produced it
Exception(type, raised_by) == [type |-> type, raised_by |-> raised_by]
NoExc == Exception("", "")

\* truth value of an environment variable: None and '' are falsy
NoToken == "<None>"
Truthy(token) == token # NoToken /\ token # ""

----------------------------------------------------------------------------
(* The environment: what the API can answer *)

Times == 0 .. MaxTime

Names == {"diplom"}

Statuses == {"approved", "reviewing", "rejected", "unknown"}

\* A record of the 'homeworks' list: a JSON object with or without the keys
\* 'homework_name' and 'status', or a JSON number.
DictRecords ==
    { [type |-> "dict", keys |-> k, homework_name |-> n, status |-> s] :
        k \in SUBSET {"homework_name", "status"}, n \in Names \cup {""},
        s \in Statuses \cup {""} }

Homeworks ==
    { r \in DictRecords :
        /\ ("homework_name" \in r.keys) <=> (r.homework_name # "")
        /\ ("status" \in r.keys) <=> (r.status # "") }
    \cup { [type |-> "int", keys |-> {}, homework_name |-> "", status |-> ""] }

HomeworkLists == UNION { [1 .. n -> Homeworks] : n \in 0 .. MaxHomeworks }

\* no response bound yet in this cycle
NoResponse ==
    [type |-> "NoneType", keys |-> {}, current_date |-> None,
     homeworks_type |-> "NoneType", homeworks |-> <<>>]

\* A decoded JSON body: an object with or without 'current_date' and
\* 'homeworks' (a list, or a value that is not a list), or a JSON array.
DictResponses ==
    { [type |-> "dict", keys |-> k, current_date |-> d,
       homeworks_type |-> t, homeworks |-> h] :
        k \in SUBSET {"current_date", "homeworks"},
        d \in {PyInt(n) : n \in Times} \cup {None},
        t \in {"list", "str", "NoneType"}, h \in HomeworkLists }

Responses ==
    { r \in DictResponses :
        /\ ("current_date" \in r.keys) <=> (r.current_date # None)
        /\ ("homeworks" \in r.keys) <=> (r.homeworks_type # "NoneType")
        /\ (r.homeworks_type # "list") => (r.homeworks = <<>>) }
    \cup { [NoResponse EXCEPT !.type = "list"] }

\* What requests.get meets: no reply at all, or a reply with a status code
\* and a body that is valid JSON or not.
StatusCodes == {200, 204, 302, 404, 500}

NetOutcomes ==
    { [kind |-> "RequestException", status_code |-> 0, decodable |-> FALSE,
       json |-> NoResponse] }
    \cup { [kind |-> "reply", status_code |-> c, decodable |-> FALSE,
            json |-> NoResponse] : c \in StatusCodes }
    \cup { [kind |-> "reply", status_code |-> HTTPStatus_OK, decodable |-> TRUE,
            json |-> r] : r \in Responses }

\* What bot.send_message does: it returns, raises telegram.TelegramError (or
\* a subclass), or raises an exception of another class.
SendOutcomes == {"ok", "TelegramError", "Exception"}

----------------------------------------------------------------------------
(* The functions of homework.py.  Each returns a record: the exception it  *)
(* raises (NoExc when it returns), the value it returns, message_log.error *)
(* after the call, and the log records it writes.                          *)

LogRecord(level, text) == [level |-> level, text |-> text]

\* the text of message_log.error before any failure has written it
NoError == <<>>

\* core.MessageError(): the object bound to message_log at import
MessageError == [error |-> NoError]

\* check_tokens with any() in place of all(): one variable is enough
check_tokens_any(env) ==
    IF ~(Truthy(env.TELEGRAM_TOKEN) \/ Truthy(env.PRACTICUM_TOKEN)
         \/ Truthy(env.TELEGRAM_CHAT_ID))
    THEN [raised |-> Exception("EmergencyStop", "check_tokens"),
          log |-> <<LogRecord("CRITICAL", <<"Required variables are missing">>)>>]
    ELSE [raised |-> NoExc, log |-> <<>>]

\* check_tokens(): raises EmergencyStop unless all three variables are truthy
check_tokens(env) ==
    IF ~(Truthy(env.TELEGRAM_TOKEN) /\ Truthy(env.PRACTICUM_TOKEN)
         /\ Truthy(env.TELEGRAM_CHAT_ID))
    THEN [raised |-> Exception("EmergencyStop", "check_tokens"),
          log |-> <<LogRecord("CRITICAL", <<"Required variables are missing">>)>>]
    ELSE [raised |-> NoExc, log |-> <<>>]

\* send_message(bot, message), bot.send_message ending with "outcome":
\* only telegram.TelegramError is caught
send_message(text, outcome) ==
    [call |-> [text |-> text, outcome |-> outcome],
     raised |-> IF outcome \in {"ok", "TelegramError"}
                THEN NoExc
                ELSE Exception(outcome, "send_message"),
     log |-> CASE outcome = "ok" ->
                    <<LogRecord("DEBUG", <<"Sending message to telegram">>)>>
               [] outcome = "TelegramError" ->
                    <<LogRecord("ERROR", <<"Error sending message: ", outcome, "!">>)>>
               [] OTHER -> <<>>]

\* response.raise_for_status(): HTTPError for a 4xx or 5xx status code
raise_for_status(status_code) == 400 <= status_code /\ status_code < 600

\* get_api_answer(timestamp), the network answering with "net"
get_api_answer(ts, net, error) ==
    LET params == [from_date |-> ts]
        attempt == LogRecord("INFO", <<"Trying to send Get request to endpoint ", ENDPOINT>>)
    IN  IF net.kind = "RequestException" \/ raise_for_status(net.status_code)
        THEN [raised |-> Exception("ErrorGetApi", "get_api_answer"),
              value |-> NoResponse,
              error |-> <<"Error requesting endpoint:", ENDPOINT, " ",
                          IF net.kind = "RequestException"
                          THEN "ConnectionError" ELSE "HTTPError">>,
              assigns |-> TRUE,
              log |-> <<attempt>>]
        ELSE IF net.status_code # HTTPStatus_OK
        THEN [raised |-> Exception("StatusNotOK", "get_api_answer"),
              value |-> NoResponse,
              error |-> <<"Request parameters:", "endpoint: ", ENDPOINT,
                          "params: ", "{'from_date': ", Repr(params.from_date), "}",
                          "status code:", ToString(net.status_code),
                          "response content:", "<content>">>,
              assigns |-> TRUE,
              log |-> <<attempt>>]
        ELSE IF ~net.decodable
        THEN [raised |-> Exception("ValueError", "get_api_answer"),
              value |-> NoResponse,
              error |-> <<"Error converting data from json">>,
              assigns |-> TRUE,
              log |-> <<attempt>>]
        ELSE [raised |-> NoExc,
              value |-> net.json,
              error |-> error,
              assigns |-> FALSE,
              log |-> <<attempt,
                        LogRecord("INFO", <<"Got successful answer from endpoint ", ENDPOINT>>)>>]

\* check_response that also requires every record of the list to be a dict
check_response_records(resp, error) ==
    IF resp.type # "dict"
    THEN [raised |-> Exception("TypeError", "check_response"), value |-> <<>>,
          error |-> <<"Server answer is not of type \"dict\"">>, assigns |-> TRUE,
          log |-> <<>>]
    ELSE IF "homeworks" \notin resp.keys
    THEN [raised |-> Exception("KeyError", "check_response"), value |-> <<>>,
          error |-> <<"Key \"homeworks\" is missing in the answer">>,
          assigns |-> TRUE, log |-> <<>>]
    ELSE IF resp.homeworks_type # "list"
            \/ \E i \in DOMAIN resp.homeworks : resp.homeworks[i].type # "dict"
    THEN [raised |-> Exception("TypeError", "check_response"), value |-> <<>>,
          error |-> <<"Data under key \"homeworks\" is not", " of type \"list\"">>,
          assigns |-> TRUE, log |-> <<>>]
    ELSE [raised |-> NoExc, value |-> resp.homeworks, error |-> error,
          assigns |-> FALSE,
          log |-> <<LogRecord("INFO", <<"Got correct answer data from the server">>)>>]

\* check_response(response)
check_response(resp, error) ==
    IF resp.type # "dict"
    THEN [raised |-> Exception("TypeError", "check_response"), value |-> <<>>,
          error |-> <<"Server answer is not of type \"dict\"">>, assigns |-> TRUE,
          log |-> <<>>]
    ELSE IF "homeworks" \notin resp.keys
    THEN [raised |-> Exception("KeyError", "check_response"), value |-> <<>>,
          error |-> <<"Key \"homeworks\" is missing in the answer">>,
          assigns |-> TRUE, log |-> <<>>]
    ELSE IF resp.homeworks_type # "list"
    THEN [raised |-> Exception("TypeError", "check_response"), value |-> <<>>,
          error |-> <<"Data under key \"homeworks\" is not", " of type \"list\"">>,
          assigns |-> TRUE, log |-> <<>>]
    ELSE [raised |-> NoExc, value |-> resp.homeworks, error |-> error,
          assigns |-> FALSE,
          log |-> <<LogRecord("INFO", <<"Got correct answer data from the server">>)>>]

\* the f-string returned by parse_status
VerdictMessage(homework_name, verdict) ==
    <<"Changed review status of work \"", homework_name, "\". ", verdict>>

\* parse_status with HOMEWORK_VERDICTS.get(status): a status that is not a
\* key gives the verdict None instead of an error
parse_status_get(homework, error) ==
    IF homework.type # "dict"
    THEN [raised |-> Exception("TypeError", "parse_status"), value |-> <<>>,
          error |-> error, assigns |-> FALSE, log |-> <<>>]
    ELSE IF "homework_name" \notin homework.keys
    THEN [raised |-> Exception("KeyError", "parse_status"), value |-> <<>>,
          error |-> <<"Key \"homework_name\" is missing">>, assigns |-> TRUE,
          log |-> <<>>]
    ELSE IF "status" \notin homework.keys
    THEN [raised |-> Exception("KeyError", "parse_status"), value |-> <<>>,
          error |-> <<"Key \"status\" is missing">>, assigns |-> TRUE,
          log |-> <<>>]
    ELSE [raised |-> NoExc,
          value |-> VerdictMessage(homework.homework_name,
                                   IF homework.status \in DOMAIN HOMEWORK_VERDICTS
                                   THEN HOMEWORK_VERDICTS[homework.status]
                                   ELSE "None"),
          error |-> error,
          assigns |-> FALSE,
          log |-> <<LogRecord("INFO", <<"Keys \"homework_name\", \"status\" are in the answer">>),
                    LogRecord("INFO", <<"Got homework status">>)>>]

\* parse_status looking up the verdict before it tests for the name
parse_status_verdict_first(homework, error) ==
    IF homework.type # "dict"
    THEN [raised |-> Exception("TypeError", "parse_status"), value |-> <<>>,
          error |-> error, assigns |-> FALSE, log |-> <<>>]
    ELSE IF "status" \notin homework.keys
    THEN [raised |-> Exception("KeyError", "parse_status"), value |-> <<>>,
          error |-> <<"Key \"status\" is missing">>, assigns |-> TRUE,
          log |-> <<>>]
    ELSE IF homework.status \notin DOMAIN HOMEWORK_VERDICTS
    THEN [raised |-> Exception("KeyError", "parse_status"), value |-> <<>>,
          error |-> <<"Unknown homework status ", homework.status>>,
          assigns |-> TRUE, log |-> <<>>]
    ELSE IF "homework_name" \notin homework.keys
    THEN [raised |-> Exception("KeyError", "parse_status"), value |-> <<>>,
          error |-> <<"Key \"homework_name\" is missing">>, assigns |-> TRUE,
          log |-> <<>>]
    ELSE [raised |-> NoExc,
          value |-> VerdictMessage(homework.homework_name,
                                   HOMEWORK_VERDICTS[homework.status]),
          error |-> error,
          assigns |-> FALSE,
          log |-> <<LogRecord("INFO", <<"Keys \"homework_name\", \"status\" are in the answer">>),
                    LogRecord("INFO", <<"Got homework status">>)>>]

\* parse_status(homework)
parse_status(homework, error) ==
    IF homework.type # "dict"
    THEN \* "'homework_name' in homework" on a number
         [raised |-> Exception("TypeError", "parse_status"), value |-> <<>>,
          error |-> error, assigns |-> FALSE, log |-> <<>>]
    ELSE IF "homework_name" \notin homework.keys
    THEN [raised |-> Exception("KeyError", "parse_status"), value |-> <<>>,
          error |-> <<"Key \"homework_name\" is missing">>, assigns |-> TRUE,
          log |-> <<>>]
    ELSE IF "status" \notin homework.keys
    THEN [raised |-> Exception("KeyError", "parse_status"), value |-> <<>>,
          error |-> <<"Key \"status\" is missing">>, assigns |-> TRUE,
          log |-> <<>>]
    ELSE IF homework.status \notin DOMAIN HOMEWORK_VERDICTS
    THEN [raised |-> Exception("KeyError", "parse_status"), value |-> <<>>,
          error |-> <<"Unknown homework status ", homework.status>>,
          assigns |-> TRUE, log |-> <<>>]
    ELSE [raised |-> NoExc,
          value |-> VerdictMessage(homework.homework_name,
                                   HOMEWORK_VERDICTS[homework.status]),
          error |-> error,
          assigns |-> FALSE,
          log |-> <<LogRecord("INFO", <<"Keys \"homework_name\", \"status\" are in the answer">>),
                    LogRecord("INFO", <<"Got homework status">>)>>]

\* the f-string built by the handler of main()
FailureMessage(error) == <<"Program failure: ">> \o error

----------------------------------------------------------------------------
(* main() *)

TokenValues == {NoToken, "", "token"}

Init ==
    /\ pc = "check_tokens"
    /\ tokens \in [ {"PRACTICUM_TOKEN", "TELEGRAM_TOKEN", "TELEGRAM_CHAT_ID"}
                    -> TokenValues ]
    /\ timestamp = None
    /\ payload = [from_date |-> None]
    /\ response = NoResponse
    /\ homeworks = <<>>
    /\ message = <<>>
    /\ message_log = MessageError
    /\ exc = NoExc
    /\ pending = NoExc
    /\ sent = <<>>
    /\ log = <<>>
    /\ slept = <<>>
    /\ fetched = FALSE
    /\ requests = <<>>
    /\ written = FALSE

\* line 140: check_tokens(); EmergencyStop leaves main()
CheckTokens ==
    /\ pc = "check_tokens"
    /\ LET r == check_tokens(tokens)
       IN  /\ log' = log \o r.log
           /\ pending' = r.raised
           /\ pc' = IF r.raised # NoExc THEN "stopped" ELSE "bot_init"
    /\ UNCHANGED <<tokens, timestamp, payload, response, homeworks, message,
                   message_log, exc, sent, slept, fetched, requests, written>>

\* lines 143-150: telegram.Bot(token=TELEGRAM_TOKEN); a TelegramError is
\* turned into EmergencyStop, any other exception leaves main() as it is
BotInit ==
    /\ pc = "bot_init"
    /\ \E outcome \in SendOutcomes :
          /\ pending' = CASE outcome = "ok" -> NoExc
                          [] outcome = "TelegramError" -> Exception("EmergencyStop", "main")
                          [] OTHER -> Exception(outcome, "telegram.Bot")
          /\ log' = IF outcome = "TelegramError"
                    THEN Append(log, LogRecord("CRITICAL", <<"Error starting the bot ", outcome>>))
                    ELSE log
          /\ pc' = IF outcome = "ok" THEN "init_timestamp" ELSE "stopped"
    /\ UNCHANGED <<tokens, timestamp, payload, response, homeworks, message,
                   message_log, exc, sent, slept, fetched, requests, written>>

\* line 152: timestamp = int(time.time())
InitTimestamp ==
    /\ pc = "init_timestamp"
    /\ \E now \in Times : timestamp' = PyInt(now)
    /\ pc' = "get_api_answer"
    /\ UNCHANGED <<tokens, payload, response, homeworks, message, message_log,
                   exc, pending, sent, log, slept, fetched, requests, written>>

\* GetApiAnswer with a second attempt inside the call when requests.get
\* raises
GetApiAnswerRetries ==
    /\ pc = "get_api_answer"
    /\ \E net \in NetOutcomes :
          LET r == get_api_answer(timestamp, net, message_log.error)
              call == [params |-> [from_date |-> timestamp], kind |-> net.kind,
                       status_code |-> net.status_code]
          IN  /\ payload' = [from_date |-> timestamp]
              /\ response' = r.value
              /\ message_log' = [message_log EXCEPT !.error = r.error]
              /\ log' = log \o r.log
              /\ exc' = r.raised
              /\ written' = r.assigns
              /\ requests' = IF net.kind = "RequestException"
                             THEN requests \o <<call, call>>
                             ELSE Append(requests, call)
              /\ pc' = IF r.raised # NoExc THEN "except" ELSE "assign_timestamp"
    /\ slept' = <<>>
    /\ fetched' = TRUE
    /\ UNCHANGED <<tokens, timestamp, homeworks, message, pending, sent>>

\* line 156: response = get_api_answer(timestamp), the first statement of a
\* cycle
GetApiAnswer ==
    /\ pc = "get_api_answer"
    /\ \E net \in NetOutcomes :
          LET r == get_api_answer(timestamp, net, message_log.error)
          IN  /\ payload' = [from_date |-> timestamp]
              /\ response' = r.value
              /\ message_log' = [message_log EXCEPT !.error = r.error]
              /\ log' = log \o r.log
              /\ exc' = r.raised
              /\ written' = r.assigns
              /\ requests' = Append(requests, [params |-> [from_date |-> timestamp],
                                               kind |-> net.kind,
                                               status_code |-> net.status_code])
              /\ pc' = IF r.raised # NoExc THEN "except" ELSE "assign_timestamp"
    /\ slept' = <<>>
    /\ fetched' = TRUE
    /\ UNCHANGED <<tokens, timestamp, homeworks, message, pending, sent>>

\* AssignTimestamp with the watermark taken from the local clock instead of
\* the server's current_date
AssignTimestampFromClock ==
    /\ pc = "assign_timestamp"
    /\ IF response.type # "dict"
       THEN /\ exc' = Exception("AttributeError", "main")
            /\ pc' = "except"
            /\ UNCHANGED timestamp
       ELSE /\ \E now \in Times : timestamp' = PyInt(now)
            /\ pc' = "check_response"
            /\ UNCHANGED exc
    /\ UNCHANGED <<tokens, payload, response, homeworks, message, message_log,
                   pending, sent, log, slept, fetched, requests, written>>

\* line 157: timestamp = response.get('current_date'); only a dict has .get
AssignTimestamp ==
    /\ pc = "assign_timestamp"
    /\ IF response.type # "dict"
       THEN /\ exc' = Exception("AttributeError", "main")
            /\ pc' = "except"
            /\ UNCHANGED timestamp
       ELSE /\ timestamp' = IF "current_date" \in response.keys
                            THEN response.current_date ELSE None
            /\ pc' = "check_response"
            /\ UNCHANGED exc
    /\ UNCHANGED <<tokens, payload, response, homeworks, message, message_log,
                   pending, sent, log, slept, fetched, requests, written>>

\* line 158: homeworks = check_response(response)
CheckResponse ==
    /\ pc = "check_response"
    /\ LET r == check_response(response, message_log.error)
       IN  /\ homeworks' = r.value
           /\ message_log' = [message_log EXCEPT !.error = r.error]
           /\ log' = log \o r.log
           /\ exc' = r.raised
           /\ written' = (written \/ r.assigns)
           /\ pc' = IF r.raised # NoExc THEN "except" ELSE "if_not_homeworks"
    /\ UNCHANGED <<tokens, timestamp, payload, response, message, pending,
                   sent, slept, fetched, requests>>

\* IfNotHomeworks without the test for the empty list: homeworks[0] raises
\* IndexError there
IfNotHomeworksIndexesEmpty ==
    /\ pc = "if_not_homeworks"
    /\ IF homeworks = <<>>
       THEN /\ exc' = Exception("IndexError", "main")
            /\ pc' = "except"
       ELSE /\ pc' = "parse_status"
            /\ UNCHANGED exc
    /\ UNCHANGED <<tokens, timestamp, payload, response, homeworks, message,
                   message_log, pending, sent, log, slept, fetched, requests, written>>

\* lines 160-162: if not homeworks: logger.debug(...) else: ...
IfNotHomeworks ==
    /\ pc = "if_not_homeworks"
    /\ IF homeworks = <<>>
       THEN /\ log' = Append(log, LogRecord("DEBUG", <<"Homework status has not changed">>))
            /\ pc' = "finally"
       ELSE /\ pc' = "parse_status"
            /\ UNCHANGED log
    /\ UNCHANGED <<tokens, timestamp, payload, response, homeworks, message,
                   message_log, exc, pending, sent, slept, fetched, requests, written>>

\* ParseStatus applied to the last record of the list
ParseStatusLast ==
    /\ pc = "parse_status"
    /\ LET r == parse_status(homeworks[Len(homeworks)], message_log.error)
       IN  /\ message' = r.value
           /\ message_log' = [message_log EXCEPT !.error = r.error]
           /\ log' = log \o r.log
           /\ exc' = r.raised
           /\ written' = (written \/ r.assigns)
           /\ pc' = IF r.raised # NoExc THEN "except" ELSE "send_message"
    /\ UNCHANGED <<tokens, timestamp, payload, response, homeworks, pending,
                   sent, slept, fetched, requests>>

\* line 163: message = parse_status(homeworks[0])
ParseStatus ==
    /\ pc = "parse_status"
    /\ LET r == parse_status(homeworks[1], message_log.error)
       IN  /\ message' = r.value
           /\ message_log' = [message_log EXCEPT !.error = r.error]
           /\ log' = log \o r.log
           /\ exc' = r.raised
           /\ written' = (written \/ r.assigns)
           /\ pc' = IF r.raised # NoExc THEN "except" ELSE "send_message"
    /\ UNCHANGED <<tokens, timestamp, payload, response, homeworks, pending,
                   sent, slept, fetched, requests>>

\* line 164: send_message(bot, message); what it raises is caught at line 166
SendVerdict ==
    /\ pc = "send_message"
    /\ \E outcome \in SendOutcomes :
          LET r == send_message(message, outcome)
          IN  /\ sent' = Append(sent, r.call)
              /\ log' = log \o r.log
              /\ exc' = r.raised
              /\ pc' = IF r.raised # NoExc THEN "except" ELSE "finally"
    /\ UNCHANGED <<tokens, timestamp, payload, response, homeworks, message,
                   message_log, pending, slept, fetched, requests, written>>

\* str(error) of the caught exception: the exceptions raised by the
\* functions of homework.py carry no arguments
ExcStr(e) ==
    CASE e.type = "AttributeError" -> "'list' object has no attribute 'get'"
      [] e.type = "TypeError" /\ e.raised_by = "parse_status" ->
             "argument of type 'int' is not iterable"
      [] OTHER -> ""

\* Except notifying only of the failures of get_api_answer
ExceptNotifiesApiErrorsOnly ==
    /\ pc = "except"
    /\ \E outcome \in SendOutcomes :
          LET text == FailureMessage(message_log.error)
              r == send_message(text, outcome)
              notified == exc.raised_by = "get_api_answer"
              error == LogRecord("ERROR", message_log.error \o <<" ", ExcStr(exc)>>)
          IN  /\ message' = text
              /\ log' = IF notified THEN Append(log, error) \o r.log ELSE Append(log, error)
              /\ sent' = IF notified THEN Append(sent, r.call) ELSE sent
              /\ pending' = IF notified THEN r.raised ELSE NoExc
    /\ pc' = "finally"
    /\ UNCHANGED <<tokens, timestamp, payload, response, homeworks,
                   message_log, exc, slept, fetched, requests, written>>

\* Except restarting the watermark from the local clock after a failure
ExceptResetsTimestamp ==
    /\ pc = "except"
    /\ \E outcome \in SendOutcomes :
          LET text == FailureMessage(message_log.error)
              r == send_message(text, outcome)
          IN  /\ message' = text
              /\ log' = Append(log, LogRecord("ERROR",
                                   message_log.error \o <<" ", ExcStr(exc)>>))
                            \o r.log
              /\ sent' = Append(sent, r.call)
              /\ pending' = r.raised
    /\ \E now \in Times : timestamp' = PyInt(now)
    /\ pc' = "finally"
    /\ UNCHANGED <<tokens, payload, response, homeworks,
                   message_log, exc, slept, fetched, requests, written>>

\* lines 166-169: except Exception: the failure is logged and send_message is
\* called with the failure message; what it raises leaves the try statement
Except ==
    /\ pc = "except"
    /\ \E outcome \in SendOutcomes :
          LET text == FailureMessage(message_log.error)
              r == send_message(text, outcome)
          IN  /\ message' = text
              /\ log' = Append(log, LogRecord("ERROR",
                                   message_log.error \o <<" ", ExcStr(exc)>>))
                            \o r.log
              /\ sent' = Append(sent, r.call)
              /\ pending' = r.raised
    /\ pc' = "finally"
    /\ UNCHANGED <<tokens, timestamp, payload, response, homeworks,
                   message_log, exc, slept, fetched, requests, written>>

\* Finally with the sleep in the else branch of the try statement: it is
\* skipped when the cycle body raised
FinallySleepsOnSuccessOnly ==
    /\ pc = "finally"
    /\ slept' = IF exc # NoExc THEN slept ELSE Append(slept, RETRY_PERIOD)
    /\ IF pending # NoExc
       THEN /\ pc' = "crashed"
            /\ UNCHANGED <<payload, response, homeworks, message, exc, sent, log,
                           written>>
       ELSE /\ pc' = "get_api_answer"
            /\ payload' = [from_date |-> None]
            /\ response' = NoResponse
            /\ homeworks' = <<>>
            /\ message' = <<>>
            /\ exc' = NoExc
            /\ sent' = <<>>
            /\ log' = <<>>
            /\ written' = FALSE
    /\ requests' = <<>>
    /\ UNCHANGED <<tokens, timestamp, message_log, pending, fetched>>

\* lines 171-172: finally: time.sleep(RETRY_PERIOD); then the pending
\* exception leaves main(), or "while True" starts the next cycle, in which
\* the locals and the records of this cycle are dead: they are cleared
Finally ==
    /\ pc = "finally"
    /\ slept' = Append(slept, RETRY_PERIOD)
    /\ IF pending # NoExc
       THEN /\ pc' = "crashed"
            /\ UNCHANGED <<payload, response, homeworks, message, exc, sent, log,
                           written>>
       ELSE /\ pc' = "get_api_answer"
            /\ payload' = [from_date |-> None]
            /\ response' = NoResponse
            /\ homeworks' = <<>>
            /\ message' = <<>>
            /\ exc' = NoExc
            /\ sent' = <<>>
            /\ log' = <<>>
            /\ written' = FALSE
    /\ requests' = <<>>
    /\ UNCHANGED <<tokens, timestamp, message_log, pending, fetched>>

Next ==
    \/ CheckTokens
    \/ BotInit
    \/ InitTimestamp
    \/ GetApiAnswer
    \/ AssignTimestamp
    \/ CheckResponse
    \/ IfNotHomeworks
    \/ ParseStatus
    \/ SendVerdict
    \/ Except
    \/ Finally

Spec == Init /\ [][Next]_vars

\* check_response as a function: it is called once on any decoded body
InitCheckResponse ==
    /\ pc = "check_response"
    /\ tokens = [v \in {"PRACTICUM_TOKEN", "TELEGRAM_TOKEN", "TELEGRAM_CHAT_ID"}
                   |-> "token"]
    /\ timestamp = None
    /\ payload = [from_date |-> None]
    /\ response \in Responses
    /\ homeworks = <<>>
    /\ message = <<>>
    /\ message_log = MessageError
    /\ exc = NoExc
    /\ pending = NoExc
    /\ sent = <<>>
    /\ log = <<>>
    /\ slept = <<>>
    /\ fetched = FALSE
    /\ requests = <<>>
    /\ written = FALSE

SpecCheckResponse == InitCheckResponse /\ [][CheckResponse]_vars

----------------------------------------------------------------------------
(* Properties *)

\* the positions inside the body of a cycle, after the request
CycleBody ==
    {"assign_timestamp", "check_response", "if_not_homeworks", "parse_status",
     "send_message", "except", "finally"}

\* the cycle body has been left: the sleep is next, or main() has been left
\* after it
CycleEnd == {"finally", "crashed"}

\* the response of this cycle is a mapping whose 'homeworks' value is a list
WellFormed ==
    /\ response.type = "dict"
    /\ "homeworks" \in response.keys
    /\ response.homeworks_type = "list"

\* the handler's log record of the failure of this cycle
FailureLogged ==
    \E i \in DOMAIN log :
        log[i] = LogRecord("ERROR", message_log.error \o <<" ", ExcStr(exc)>>)

\* exactly one call of send_message in this cycle, with the failure message
OneFailureNotification ==
    /\ Len(sent) = 1
    /\ sent[1].text = FailureMessage(message_log.error)

\* the cycle failed in one of the stages fetch, validate, interpret
StageFailed ==
    exc.raised_by \in {"get_api_answer", "check_response", "parse_status"}

\* C1: once the loop has started, no error raised during a cycle ends the
\* process: main() is never left by an exception escaping the loop.
C1_NoErrorLeavesLoop == pc # "crashed"

\* C2: on every exit path of the cycle body exactly one sleep of RETRY_PERIOD
\* is executed before the next request: a request after the first is issued
\* only with exactly one completed sleep of 600 s since the request before
\* it, no sleep happens inside the cycle body, and the sleep has also run
\* when an exception leaves the loop.
C2_OneSleepBetweenFetches ==
    /\ (pc = "get_api_answer" /\ fetched) => slept = <<RETRY_PERIOD>>
    /\ (pc \in CycleBody) => slept = <<>>
    /\ (pc = "crashed") => slept = <<RETRY_PERIOD>>

C2_Witness ==
    /\ pc = "get_api_answer"
    /\ fetched
    /\ message_log.error # NoError
    /\ slept = <<RETRY_PERIOD>>

\* C3: whenever get_api_answer, check_response or parse_status raises,
\* whatever the exception, control is in the handler and then at the sleep;
\* when the handler is done the failure is logged and send_message has been
\* called exactly once, with the failure message, also when that call fails;
\* and the sleep has run when the failing notification leaves the loop.
C3_UniformFailureHandling ==
    StageFailed =>
        /\ pc \in {"except"} \cup CycleEnd
        /\ (pc = "except") => sent = <<>>
        /\ (pc \in CycleEnd) => (FailureLogged /\ OneFailureNotification)
        /\ (pc = "crashed") => slept = <<RETRY_PERIOD>>

C3_Witness ==
    /\ pc = "finally"
    /\ exc = Exception("KeyError", "parse_status")
    /\ Len(sent) = 1
    /\ sent[1].outcome = "Exception"

\* C4: send_message never raises to its caller: neither the call on the
\* success path nor the call in the handler ends with an exception.
C4_SendMessageNeverRaises ==
    /\ exc.raised_by # "send_message"
    /\ pending.raised_by # "send_message"

\* C5: at the end of a cycle that raised nothing and whose response carries
\* current_date = T the watermark is T, whatever it was before; the sleep
\* leaves it, and every request is sent with from_date = the watermark, so
\* the next request carries T.
C5_WatermarkReplaced ==
    [][ /\ (pc = "finally" /\ exc = NoExc /\ "current_date" \in response.keys)
            => (timestamp = response.current_date /\ timestamp' = timestamp)
        /\ (pc = "get_api_answer") => (payload'.from_date = timestamp) ]_vars

C5_Witness ==
    /\ pc = "finally"
    /\ exc = NoExc
    /\ "current_date" \in response.keys
    /\ payload.from_date # response.current_date
    /\ timestamp = response.current_date

\* C6: in a cycle in which the fetch, check_response or parse_status fails,
\* the watermark equals the watermark the cycle started with (the from_date
\* of its request).
C6_WatermarkKeptOnFailure ==
    StageFailed => timestamp = payload.from_date

C8_NoNotificationForEmptyList ==
    (WellFormed /\ response.homeworks = <<>>) => (sent = <<>> /\ pc # "except")

C8_Witness ==
    /\ pc = "finally"
    /\ WellFormed
    /\ response.homeworks = <<>>
    /\ sent = <<>>

\* C9: at the end of a cycle whose response is well-formed with a non-empty
\* list whose first record has a name and a known status, send_message has
\* been called exactly once, with the verdict message of that record.
C9_OneVerdictNotification ==
    ( /\ pc \in CycleEnd
      /\ WellFormed
      /\ response.homeworks # <<>>
      /\ response.homeworks[1].type = "dict"
      /\ "homework_name" \in response.homeworks[1].keys
      /\ response.homeworks[1].status \in DOMAIN HOMEWORK_VERDICTS )
    => /\ Len(sent) = 1
       /\ sent[1].text = VerdictMessage(response.homeworks[1].homework_name,
                                         HOMEWORK_VERDICTS[response.homeworks[1].status])

\* C10: a cycle whose response is not a mapping fails with the TypeError of
\* check_response and its diagnostic.
C10_NonMappingFailsInCheckResponse ==
    (response.type = "list" /\ pc \in {"except"} \cup CycleEnd)
    => /\ exc = Exception("TypeError", "check_response")
       /\ message_log.error = <<"Server answer is not of type \"dict\"">>

\* the three required variables are all set and non-empty
AllTokens ==
    \A v \in {"PRACTICUM_TOKEN", "TELEGRAM_TOKEN", "TELEGRAM_CHAT_ID"} :
        tokens[v] \notin {NoToken, ""}

\* C11: when one of the three required variables is missing or empty, or
\* telegram.Bot cannot be created, main() is left before the loop: no
\* request is issued, send_message is not called and no sleep is executed.
C11_StartupFailureStopsBeforeLoop ==
    /\ (~AllTokens) => pc \in {"check_tokens", "stopped"}
    /\ (~AllTokens \/ pc = "stopped")
          => (~fetched /\ requests = <<>> /\ sent = <<>> /\ slept = <<>>)
    /\ (pc = "stopped") => pending # NoExc

C11_Witness ==
    /\ pc = "stopped"
    /\ tokens["PRACTICUM_TOKEN"] = "token"
    /\ tokens["TELEGRAM_TOKEN"] = "token"
    /\ tokens["TELEGRAM_CHAT_ID"] = ""
    /\ pending = Exception("EmergencyStop", "check_tokens")

\* the first record of the list has both fields and parse_status has just
\* been applied to it
ParsedRecordWithBothFields ==
    /\ pc \in {"send_message", "except"}
    /\ exc.raised_by \notin {"check_response", "send_message"}
    /\ homeworks # <<>>
    /\ homeworks[1].type = "dict"
    /\ homeworks[1].keys = {"homework_name", "status"}

\* C12: for a record with a name and a status, parse_status returns the
\* message with the verdict of HOMEWORK_VERDICTS when the status is approved,
\* reviewing or rejected, and for any other status raises KeyError with the
\* unknown-status diagnostic and produces no message.
C12_KnownStatusesMapToVerdicts ==
    ParsedRecordWithBothFields =>
        IF homeworks[1].status \in {"approved", "reviewing", "rejected"}
        THEN /\ pc = "send_message"
             /\ exc = NoExc
             /\ message = VerdictMessage(homeworks[1].homework_name,
                                         HOMEWORK_VERDICTS[homeworks[1].status])
        ELSE /\ pc = "except"
             /\ exc = Exception("KeyError", "parse_status")
             /\ message_log.error = <<"Unknown homework status ", homeworks[1].status>>
             /\ message = <<>>

C12_Witness ==
    /\ ParsedRecordWithBothFields
    /\ homeworks[1].status = "unknown"
    /\ pc = "except"
    /\ message = <<>>

\* the last call of requests.get
LastRequest == requests[Len(requests)]

\* C13: a request that completes with a status code other than 200 makes
\* get_api_answer raise StatusNotOK, with the endpoint, the parameters, the
\* code and the body in the diagnostic; ErrorGetApi is raised only when
\* requests.get itself could not complete.
C13_NonOkStatusRaisesStatusNotOK ==
    (requests # <<>> /\ pc \in {"except", "finally"} /\ exc.raised_by = "get_api_answer")
    => /\ (LastRequest.kind = "reply" /\ LastRequest.status_code # HTTPStatus_OK)
            => /\ exc.type = "StatusNotOK"
               /\ message_log.error =
                     <<"Request parameters:", "endpoint: ", ENDPOINT,
                       "params: ", "{'from_date': ", Repr(LastRequest.params.from_date), "}",
                       "status code:", ToString(LastRequest.status_code),
                       "response content:", "<content>">>
       /\ (exc.type = "ErrorGetApi") => LastRequest.kind = "RequestException"

\* C14: check_response returns the value under 'homeworks' unchanged exactly
\* when the response is a dict with that key and a list under it, whatever
\* the list holds; otherwise it raises TypeError with the 'not a dict'
\* diagnostic (not a mapping), KeyError with the 'key missing' diagnostic
\* (no key), or TypeError with the 'not a list' diagnostic (not a list).
C14_CheckResponseContract ==
    (pc # "check_response") =>
        IF response.type # "dict"
        THEN /\ pc = "except"
             /\ exc = Exception("TypeError", "check_response")
             /\ message_log.error = <<"Server answer is not of type \"dict\"">>
        ELSE IF "homeworks" \notin response.keys
        THEN /\ pc = "except"
             /\ exc = Exception("KeyError", "check_response")
             /\ message_log.error = <<"Key \"homeworks\" is missing in the answer">>
        ELSE IF response.homeworks_type # "list"
        THEN /\ pc = "except"
             /\ exc = Exception("TypeError", "check_response")
             /\ message_log.error =
                    <<"Data under key \"homeworks\" is not", " of type \"list\"">>
        ELSE /\ pc = "if_not_homeworks"
             /\ exc = NoExc
             /\ homeworks = response.homeworks
             /\ message_log = MessageError

C14_Witness ==
    /\ pc = "if_not_homeworks"
    /\ Len(homeworks) = 2
    /\ homeworks[1].type = "int"
    /\ homeworks[2].keys = {}
    /\ homeworks = response.homeworks

\* C15: between two consecutive sleeps at most one request is issued, also
\* when it fails: none before the cycle's call of get_api_answer, exactly one
\* after it.
C15_OneRequestPerCycle ==
    /\ Len(requests) <= 1
    /\ (pc = "get_api_answer") => requests = <<>>
    /\ (pc \in CycleBody) => Len(requests) = 1

C15_Witness ==
    /\ pc = "finally"
    /\ exc.type = "ErrorGetApi"
    /\ Len(requests) = 1
    /\ requests[1].kind = "RequestException"

\* C16: in every state of the loop the watermark is an int, and every
\* request is sent with an int from_date.
C16_WatermarkIsInteger ==
    (pc \in {"get_api_answer", "crashed"} \cup CycleBody)
    => /\ timestamp.type = "int"
       /\ \A i \in DOMAIN requests : requests[i].params.from_date.type = "int"

\* C17: when the first record lacks 'homework_name' or 'status', whatever the
\* other field is, the cycle fails with the KeyError of parse_status and the
\* missing-key diagnostic of the first missing field, and every message sent
\* in the cycle is the failure message: no verdict is sent.
C17_MissingFieldError ==
    ( /\ pc \in {"except"} \cup CycleEnd
      /\ homeworks # <<>>
      /\ homeworks[1].type = "dict"
      /\ homeworks[1].keys # {"homework_name", "status"} )
    => /\ exc = Exception("KeyError", "parse_status")
       /\ message_log.error =
             IF "homework_name" \notin homeworks[1].keys
             THEN <<"Key \"homework_name\" is missing">>
             ELSE <<"Key \"status\" is missing">>
       /\ \A i \in DOMAIN sent : sent[i].text = FailureMessage(message_log.error)

C17_Witness ==
    /\ pc = "finally"
    /\ homeworks # <<>>
    /\ homeworks[1].keys = {"status"}
    /\ homeworks[1].status = "unknown"
    /\ Len(sent) = 1

\* C18: for a non-empty list the outcome of the cycle is the outcome of
\* parse_status on the first record alone: the message of the cycle, the
\* exception caught, the diagnostic and the first message sent are those of
\* the first record, whatever the records after it are.
C18_OnlyFirstRecordInspected ==
    (homeworks # <<>> /\ pc \in {"send_message", "except"} \cup CycleEnd)
    => LET r == parse_status(response.homeworks[1], message_log.error)
       IN  /\ message_log.error = r.error
           /\ IF r.raised = NoExc
              THEN /\ (pc = "send_message") => (message = r.value /\ exc = NoExc)
                   /\ (pc = "except") => (exc.raised_by = "send_message")
                   /\ (pc \in CycleEnd) => sent[1].text = r.value
              ELSE /\ exc = r.raised
                   /\ (pc \in CycleEnd)
                        => (Len(sent) = 1 /\ sent[1].text = FailureMessage(r.error))

C18_Witness ==
    /\ pc = "finally"
    /\ Len(homeworks) = 2
    /\ homeworks[1].keys = {"homework_name", "status"}
    /\ homeworks[1].status = "approved"
    /\ homeworks[2].type = "int"
    /\ exc = NoExc
    /\ Len(sent) = 1

\* C19: when the handler has run, the diagnostic in message_log.error, which
\* the failure message carries, has been assigned in this cycle and is set.
C19_FailureDiagnosticIsFresh ==
    (pc \in CycleEnd /\ exc # NoExc) => (written /\ message_log.error # NoError)

\* C20: send_message is called at most once in a cycle.
C20_AtMostOneSendPerCycle == Len(sent) <= 1

====
